---- MODULE Spec2Model ----
(***************************************************************************)
(* Model of c_src/nif.cpp: the decode_fit_file NIF, its Listener and the   *)
(* RecordData it accumulates.                                              *)
(*                                                                         *)
(* 32-bit quantities do not fit TLC's integers, so every number of the     *)
(* data path is a pair <<hi, lo>> standing for hi * 65536 + lo, with       *)
(* lo in 0..65535.  hi is unbounded for mathematical values, 0..65535 for  *)
(* an unsigned int and -32768..32767 for an int.  A float is the pair of   *)
(* its IEEE-754 binary32 bit pattern.                                      *)
(***************************************************************************)
EXTENDS Integers, Sequences, FiniteSets, TLC

VARIABLES
    buffer,       \* the binary handed to the NIF (immutable input)
    fit_stream,   \* std::stringstream: read position and eof flag
    pc,           \* position in decode_fit_file_nif
    records,      \* Listener::records
    recordSrc,    \* history: index in buffer.msgs of the message behind each record
    delivered,    \* history: indices of the messages handed to OnMesg, in order
    readCalled,   \* history: decode.Read was entered
    thrown,       \* history: the exception decode.Read threw ("" for none)
    it,           \* reverse iterator over records, as an index (0 = rend)
    result_list,  \* the Erlang list under construction
    resultSrc,    \* history: message index behind each element of result_list
    badarg,       \* an enif_make_badarg exception is pending in env
    result,       \* what the NIF call yields to its caller
    decode,       \* the framing state of the fit::Decode object
    other,        \* the locals of a second invocation, while it is not running
    self          \* the invocation that is running (1 or 2)

vars == <<buffer, fit_stream, pc, records, recordSrc, delivered, readCalled,
          thrown, it, result_list, resultSrc, badarg, result, decode, other, self>>

----------------------------------------------------------------------------
(* Wide numbers *)

FromInt(n) == <<n \div 65536, n % 65536>>

WAdd(a, b) ==
    LET s == a[2] + b[2]
    IN  <<a[1] + b[1] + (s \div 65536), s % 65536>>

WLe(a, b) == a[1] < b[1] \/ (a[1] = b[1] /\ a[2] <= b[2])

\* conversion to unsigned int: reduction modulo 2^32
WrapU32(a) == <<a[1] % 65536, a[2]>>

\* conversion to int: two's complement on 32 bits
WrapS32(a) ==
    LET h == a[1] % 65536
    IN  <<IF h >= 32768 THEN h - 65536 ELSE h, a[2]>>

(* binary32 bit patterns *)
FloatExp(x) == (x[1] \div 128) % 256
FloatMantZero(x) == x[1] % 128 = 0 /\ x[2] = 0
IsNaN(x) == FloatExp(x) = 255 /\ ~FloatMantZero(x)
IsInf(x) == FloatExp(x) = 255 /\ FloatMantZero(x)
IsFinite(x) == FloatExp(x) # 255
FloatIsZero(x) == x[1] % 32768 = 0 /\ x[2] = 0
\* operator != on two floats: a NaN differs from everything, +0 equals -0
FloatNe(x, y) ==
    IsNaN(x) \/ IsNaN(y) \/ (x # y /\ ~(FloatIsZero(x) /\ FloatIsZero(y)))

----------------------------------------------------------------------------
(* Constants of the FIT profile used by nif.cpp *)

FIT_MESG_NUM_RECORD == 20
UNIX_EPOCH_OFFSET == <<9629, 19456>>         \* 631065600
FIT_UINT8_INVALID == <<0, 255>>              \* 0xFF
FIT_SINT8_INVALID == <<0, 127>>              \* 0x7F
FIT_UINT16_INVALID == <<0, 65535>>           \* 0xFFFF
FIT_UINT32_INVALID == <<65535, 65535>>       \* 0xFFFFFFFF
FIT_SINT32_INVALID == <<32767, 65535>>       \* 0x7FFFFFFF
FIT_DATE_TIME_INVALID == <<65535, 65535>>    \* 0xFFFFFFFF
FIT_FLOAT32_INVALID == <<65535, 65535>>      \* binary32 pattern 0xFFFFFFFF, a NaN

----------------------------------------------------------------------------
(* RecordData: the fields, grouped by the FIT base type nif.cpp treats them as *)

Float32Fields ==
    {"altitude", "distance", "enhanced_altitude", "speed", "enhanced_speed", "grade",
     "vertical_speed", "left_torque_effectiveness", "right_torque_effectiveness",
     "left_pedal_smoothness", "right_pedal_smoothness", "combined_pedal_smoothness",
     "cadence256", "fractional_cadence", "cycle_length", "cycle_length16",
     "vertical_oscillation", "stance_time", "stance_time_percent",
     "stance_time_balance", "step_length", "vertical_ratio", "core_temperature",
     "enhanced_respiration_rate", "current_stress", "total_hemoglobin_conc",
     "total_hemoglobin_conc_min", "total_hemoglobin_conc_max",
     "saturated_hemoglobin_percent", "saturated_hemoglobin_percent_min",
     "saturated_hemoglobin_percent_max", "battery_soc", "ball_speed", "depth",
     "next_stop_depth", "ascent_rate", "po2", "time128", "grit", "flow",
     "time_from_course", "pressure_sac", "volume_sac", "rmv"}

Uint8Fields ==
    {"heart_rate", "gps_accuracy", "cadence", "left_right_balance", "cycles",
     "respiration_rate", "ebike_battery_level", "ebike_assist_mode",
     "ebike_assist_level_percent", "stroke_type", "resistance", "cns_load",
     "activity_type", "device_index", "zone"}

Uint16Fields ==
    {"power", "motor_power", "calories", "ebike_travel_range", "n2_load"}

Uint32Fields ==
    {"accumulated_power", "total_cycles", "absolute_pressure", "next_stop_time",
     "time_to_surface", "ndl_time", "air_time_remaining"}

Sint8Fields ==
    {"temperature", "left_pco", "right_pco"}

Sint32Fields ==
    {"position_lat", "position_long"}

\* every field but the timestamp
FieldNames ==
    Float32Fields \cup Uint8Fields \cup Uint16Fields \cup Uint32Fields
        \cup Sint8Fields \cup Sint32Fields

AllFields == {"timestamp"} \cup FieldNames

BaseType(f) ==
    CASE f = "timestamp" -> "date_time"
      [] f \in Float32Fields -> "float32"
      [] f \in Uint8Fields -> "uint8"
      [] f \in Uint16Fields -> "uint16"
      [] f \in Uint32Fields -> "uint32"
      [] f \in Sint8Fields -> "sint8"
      [] f \in Sint32Fields -> "sint32"

\* the FIT_*_INVALID constant nif.cpp pairs with the field
InvalidOf(f) ==
    CASE BaseType(f) = "date_time" -> FIT_DATE_TIME_INVALID
      [] BaseType(f) = "float32" -> FIT_FLOAT32_INVALID
      [] BaseType(f) = "uint8" -> FIT_UINT8_INVALID
      [] BaseType(f) = "uint16" -> FIT_UINT16_INVALID
      [] BaseType(f) = "uint32" -> FIT_UINT32_INVALID
      [] BaseType(f) = "sint8" -> FIT_SINT8_INVALID
      [] BaseType(f) = "sint32" -> FIT_SINT32_INVALID

\* the C type of the RecordData member
CType(f) ==
    CASE BaseType(f) = "float32" -> "float"
      [] BaseType(f) \in {"sint8", "sint32"} -> "int"
      [] OTHER -> "unsigned int"

\* implicit conversion of a value to the member's C type
Convert(ctype, v) ==
    CASE ctype = "unsigned int" -> WrapU32(v)
      [] ctype = "int" -> WrapS32(v)
      [] ctype = "float" -> v

----------------------------------------------------------------------------
(* fit::RecordMesg as nif.cpp sees it.  A message is [num, fields]; a field  *)
(* entry is [has, raw]: whether the message carries the field, and its raw   *)
(* bit pattern (for a float-valued field, the bit pattern of the float the   *)
(* getter yields, which is FIT_FLOAT32_INVALID exactly when the wire value   *)
(* is the invalid value of its wire type).                                   *)

Absent == [has |-> FALSE, raw |-> <<0, 0>>]
Present(raw) == [has |-> TRUE, raw |-> raw]

\* the invalid bit pattern of the field's base type (sentinel table)
WireInvalid(f) ==
    CASE BaseType(f) \in {"uint8"} -> <<0, 255>>
      [] BaseType(f) \in {"sint8"} -> <<0, 127>>
      [] BaseType(f) \in {"uint16"} -> <<0, 65535>>
      [] BaseType(f) \in {"sint32"} -> <<32767, 65535>>
      [] BaseType(f) \in {"uint32", "date_time", "float32"} -> <<65535, 65535>>

\* mesg.Is<Field>Valid()
IsFieldValid(mesg, f) ==
    mesg.fields[f].has /\ mesg.fields[f].raw # WireInvalid(f)

\* the raw bit pattern read as a value of the base type
DecodeRaw(t, raw) ==
    CASE t = "sint8" -> IF raw[2] >= 128 THEN FromInt(raw[2] - 256) ELSE raw
      [] t = "sint32" -> IF raw[1] >= 32768 THEN <<raw[1] - 65536, raw[2]>> ELSE raw
      [] OTHER -> raw

\* mesg.Get<Field>()
GetField(mesg, f) ==
    IF mesg.fields[f].has
        THEN DecodeRaw(BaseType(f), mesg.fields[f].raw)
        ELSE InvalidOf(f)

----------------------------------------------------------------------------
(* Listener *)

\* as if data.timestamp were wide enough to hold the sum
TimestampOfWide(mesg) ==
    IF IsFieldValid(mesg, "timestamp")
        THEN WAdd(GetField(mesg, "timestamp"), UNIX_EPOCH_OFFSET)
        ELSE FIT_DATE_TIME_INVALID

\* data.timestamp = mesg.GetTimestamp() + 631065600, in unsigned int
TimestampOf(mesg) ==
    IF IsFieldValid(mesg, "timestamp")
        THEN WrapU32(WAdd(GetField(mesg, "timestamp"), UNIX_EPOCH_OFFSET))
        ELSE FIT_DATE_TIME_INVALID

\* data.<field> = valid ? mesg.Get<Field>() : FIT_<TYPE>_INVALID
MemberOf(mesg, f) ==
    IF IsFieldValid(mesg, f)
        THEN Convert(CType(f), GetField(mesg, f))
        ELSE Convert(CType(f), InvalidOf(f))

\* the RecordData that ProcessRecordMessage fills from the message
RecordDataOf(mesg) ==
    [f \in AllFields |->
        IF f = "timestamp" THEN TimestampOf(mesg) ELSE MemberOf(mesg, f)]

\* variant: the record is pushed without the timestamp test
AdmitsAny(data) == TRUE

\* if (data.timestamp != FIT_DATE_TIME_INVALID)
Admits(data) == data["timestamp"] # FIT_DATE_TIME_INVALID

\* as if data outlived the call and a field that is not valid in the message
\* were left as the call before had set it
ProcessRecordMessageCarry(recs, mesg) ==
    LET fresh == RecordDataOf(mesg)
        prev == IF recs = <<>>
                    THEN [f \in AllFields |-> <<0, 0>>]
                    ELSE recs[Len(recs)]
        data == [f \in AllFields |->
                    IF IsFieldValid(mesg, f) THEN fresh[f] ELSE prev[f]]
    IN  IF Admits(data) THEN Append(recs, data) ELSE recs

ProcessRecordMessage(recs, mesg) ==
    LET data == RecordDataOf(mesg)
    IN  IF Admits(data) THEN Append(recs, data) ELSE recs

\* as if OnMesg did not test the message number
OnMesgAnyNum(recs, mesg) == ProcessRecordMessage(recs, mesg)

OnMesg(recs, mesg) ==
    IF mesg.num = FIT_MESG_NUM_RECORD
        THEN ProcessRecordMessage(recs, mesg)
        ELSE recs

----------------------------------------------------------------------------
(* Conversion of the records to Erlang terms *)

\* variant: every integer member is compared with FIT_UINT32_INVALID
EmitsWide(f, v) ==
    IF BaseType(f) = "float32"
        THEN FloatNe(v, FIT_FLOAT32_INVALID) /\ ~IsNaN(v)
        ELSE v # FIT_UINT32_INVALID

\* variant: a member equal to zero is treated as not set
EmitsNonZero(f, v) ==
    IF BaseType(f) = "float32"
        THEN FloatNe(v, FIT_FLOAT32_INVALID) /\ ~IsNaN(v) /\ ~FloatIsZero(v)
        ELSE v # Convert(CType(f), InvalidOf(f)) /\ v # <<0, 0>>

\* variant: the float test without std::isnan
EmitsNoIsNaN(f, v) ==
    IF BaseType(f) = "float32"
        THEN FloatNe(v, FIT_FLOAT32_INVALID)
        ELSE v # Convert(CType(f), InvalidOf(f))

\* the test guarding enif_make_map_put for a field other than the timestamp
Emits(f, v) ==
    IF BaseType(f) = "float32"
        THEN FloatNe(v, FIT_FLOAT32_INVALID) /\ ~IsNaN(v)
        ELSE v # Convert(CType(f), InvalidOf(f))

\* enif_make_int(env, int)
enif_make_int(v) == [type |-> "int", v |-> WrapS32(v)]

\* enif_make_uint(env, unsigned)
enif_make_uint(v) == [type |-> "uint", v |-> WrapU32(v)]

\* as if enif_make_double built a float term from any double
enif_make_double_unchecked(v) == [type |-> "double", v |-> v]

\* enif_make_double(env, double): badarg for a NaN or an infinity
enif_make_double(v) ==
    IF IsFinite(v)
        THEN [type |-> "double", v |-> v]
        ELSE [type |-> "exception", v |-> <<0, 0>>]

\* as if every integer member were put with enif_make_int
MakeTermAllInt(f, v) ==
    CASE BaseType(f) = "float32" -> enif_make_double(v)
      [] OTHER -> enif_make_int(v)

\* the enif_make_* call nif.cpp uses for the field
MakeTerm(f, v) ==
    CASE BaseType(f) = "float32" -> enif_make_double(v)
      [] BaseType(f) \in {"uint32", "date_time"} -> enif_make_uint(v)
      [] OTHER -> enif_make_int(v)

\* the keys put in the map of one record
KeysOf(data) == {"timestamp"} \cup {f \in FieldNames : Emits(f, data[f])}

\* the map built by one iteration of the conversion loop
MakeMap(data) == [f \in KeysOf(data) |-> MakeTerm(f, data[f])]

\* some enif_make_double call of the iteration raised badarg
RaisesBadarg(data) == \E f \in KeysOf(data) : MakeTerm(f, data[f]).type = "exception"

\* variant: the new cell goes to the end of the list
ListCellAtEnd(head, tail) == tail \o <<head>>

\* enif_make_list_cell(env, map, result_list)
enif_make_list_cell(head, tail) == <<head>> \o tail

(* what a call yields *)
Pending == [kind |-> "pending", atom |-> "", list |-> <<>>]
ReturnAtom(a) == [kind |-> "atom", atom |-> a, list |-> <<>>]
ReturnList(l) == [kind |-> "list", atom |-> "", list |-> l]
RaiseBadarg == [kind |-> "raise", atom |-> "badarg", list |-> <<>>]
Uncaught(e) == [kind |-> "uncaught", atom |-> e, list |-> <<>>]

----------------------------------------------------------------------------
(* Inputs *)

\* longest message sequence of a multi-message buffer
MaxMsgs == 2

\* Record fields that are binary32 on the wire (no scaling): any bit pattern
NativeFloatFields == {"grit", "flow"}

\* raw bit patterns tried for a field: zero, the extremes, the invalid value
RawValues(f) ==
    CASE BaseType(f) = "uint8" -> {<<0, 0>>, <<0, 254>>, <<0, 255>>}
      [] BaseType(f) = "uint16" -> {<<0, 0>>, <<0, 255>>, <<0, 65534>>, <<0, 65535>>}
      [] BaseType(f) = "uint32" ->
            {<<0, 0>>, <<0, 65535>>, <<32768, 0>>, <<65535, 65534>>, <<65535, 65535>>}
      [] BaseType(f) = "sint8" -> {<<0, 0>>, <<0, 127>>, <<0, 128>>, <<0, 255>>}
      [] BaseType(f) = "sint32" ->
            {<<0, 0>>, <<32767, 65535>>, <<32768, 0>>, <<65535, 65535>>}
      [] BaseType(f) = "float32" ->
            \* 0.0, 150.0, -100.0, FIT_FLOAT32_INVALID
            {<<0, 0>>, <<17174, 0>>, <<49864, 0>>, <<65535, 65535>>}
                \cup IF f \in NativeFloatFields
                         \* a quiet NaN, +infinity, -infinity
                         THEN {<<32704, 0>>, <<32640, 0>>, <<65408, 0>>}
                         ELSE {}

\* a valid non-zero value of the field's type (1, or 1.0)
DefaultRaw(f) == IF BaseType(f) = "float32" THEN <<16256, 0>> ELSE <<0, 1>>

\* raw timestamps: 1000000000, the invalid value, the two values whose
\* Unix conversion leaves 32 bits (0xFFFFFFFF - 631065600 and 0xFFFFFFFE)
TimestampEntries ==
    {Absent, Present(<<65535, 65535>>), Present(<<15258, 51712>>),
     Present(<<55906, 46079>>), Present(<<65535, 65534>>)}

\* the fields a message carries besides its timestamp and its varied field:
\* none, all of them with a valid value, or altitude 150.0 with the invalid
\* heart rate
BodyFields(body) ==
    CASE body = "none" -> [f \in FieldNames |-> Absent]
      [] body = "default" -> [f \in FieldNames |-> Present(DefaultRaw(f))]
      [] body = "scenario" ->
            [f \in FieldNames |->
                CASE f = "altitude" -> Present(<<17174, 0>>)
                  [] f = "heart_rate" -> Present(<<0, 255>>)
                  [] OTHER -> Absent]

\* A data record of the buffer: its global message number, its timestamp
\* entry, its body, and one field set apart with its own entry ("" for none).
\* The fit::Mesg that Read decodes from it:
DecodeMesg(d) ==
    [num |-> d.num,
     fields |-> [f \in AllFields |->
                    CASE f = "timestamp" -> d.ts
                      [] f = d.field -> d.entry
                      [] OTHER -> BodyFields(d.body)[f]]]

\* data records of the multi-message buffers: Record messages over the
\* timestamps, and one message of another type (file_id, 0) with valid fields
SeqMsgs ==
    {[num |-> FIT_MESG_NUM_RECORD, ts |-> t, body |-> b, field |-> "", entry |-> Absent] :
        t \in TimestampEntries, b \in {"none", "scenario"}}
      \cup {[num |-> 0, ts |-> Present(<<15258, 51712>>), body |-> "default",
             field |-> "", entry |-> Absent]}

\* Record messages with a valid timestamp that vary one field over its raw
\* values, the other fields being all absent or all valid
FieldMsgs ==
    UNION {
        {[num |-> FIT_MESG_NUM_RECORD, ts |-> Present(<<15258, 51712>>),
          body |-> b, field |-> f, entry |-> e] :
            e \in {Absent} \cup {Present(r) : r \in RawValues(f)},
            b \in {"none", "default"}} :
        f \in FieldNames}

MsgSeqs ==
    UNION {[1..n -> SeqMsgs] : n \in 0..MaxMsgs} \cup {<<m>> : m \in FieldMsgs}

\* exceptions Read can end with: the SDK's own, and any other C++ exception
Exceptions == {"fit::RuntimeException", "std::exception"}

\* A buffer: its size in units (0 for the empty binary, else the header and one
\* unit per data record), its data records, whether its CRC and header check out, and
\* the unit at which Read throws (-1: none) with the exception thrown there.
EmptyBuffer ==
    [size |-> 0, msgs |-> <<>>, crc_ok |-> FALSE, failAt |-> -1, exc |-> ""]

Buffers ==
    {EmptyBuffer} \cup
    UNION {
        {[size |-> Len(ms) + 1, msgs |-> ms, crc_ok |-> FALSE, failAt |-> -1, exc |-> ""],
         [size |-> Len(ms) + 1, msgs |-> ms, crc_ok |-> TRUE, failAt |-> -1, exc |-> ""]}
          \cup {[size |-> Len(ms) + 1, msgs |-> ms, crc_ok |-> TRUE, failAt |-> k, exc |-> e] :
                    k \in 0..Len(ms), e \in Exceptions} :
        ms \in MsgSeqs}

----------------------------------------------------------------------------
(* fit::Decode *)

\* the framing of the record stream that Read decodes: every record names a
\* local message type; a definition record binds the local type to a global
\* message number and a field layout, a data record is decoded against the
\* definition its local type is bound to at that point of the stream

\* the longest record stream given to the framing
MaxFrames == 4

LocalTypes == {0, 1}

\* the field layouts a definition can give to the bytes of a data record
Layouts == {<<"heart_rate", "cadence">>, <<"cadence", "heart_rate">>}

Definitions ==
    {[num |-> FIT_MESG_NUM_RECORD, layout |-> l] : l \in Layouts}
      \cup {[num |-> 0, layout |-> <<"heart_rate", "cadence">>]}

\* a local message type that no definition record has bound yet
Undefined == [num |-> -1, layout |-> <<>>]

\* the bytes of a data record
Payload == <<60, 90>>

Frames ==
    {[kind |-> "definition", local |-> l, def |-> d] :
        l \in LocalTypes, d \in Definitions}
      \cup {[kind |-> "data", local |-> l, def |-> Undefined] : l \in LocalTypes}

FrameSeqs == UNION {[1..n -> Frames] : n \in 1..MaxFrames}

\* a decoder about to read the record stream frames
NewDecode(frames) ==
    [frames |-> frames,
     pos |-> 1,
     defs |-> [l \in LocalTypes |-> Undefined],
     out |-> <<>>,
     at |-> <<>>,
     failed |-> FALSE]

\* the message a data record with these bytes is under definition def
DecodeData(def, bytes) ==
    [num |-> def.num,
     fields |-> [f \in {def.layout[k] : k \in 1..Len(def.layout)} |->
                    bytes[CHOOSE k \in 1..Len(def.layout) : def.layout[k] = f]]]

\* as if a local message type kept the first definition given to it
BindFirst(defs, l, def) ==
    IF defs[l] = Undefined THEN [defs EXCEPT ![l] = def] ELSE defs

\* a definition record binds its local message type anew
Bind(defs, l, def) == [defs EXCEPT ![l] = def]

\* as if a stream with no bytes in it passed the check
CheckIntegrityAcceptsEmpty(b) == b.size = 0 \/ b.crc_ok

\* decode.CheckIntegrity(fit_stream)
CheckIntegrity(b) == b.size > 0 /\ b.crc_ok

----------------------------------------------------------------------------
(* decode_fit_file_nif *)

\* the locals of an invocation on buffer b, as the function is entered
FreshContext(b) ==
    [buffer |-> b,
     fit_stream |-> [pos |-> 0, eof |-> FALSE],
     pc |-> "check",
     records |-> <<>>,
     recordSrc |-> <<>>,
     delivered |-> <<>>,
     readCalled |-> FALSE,
     thrown |-> "",
     it |-> 0,
     result_list |-> <<>>,
     resultSrc |-> <<>>,
     badarg |-> FALSE,
     result |-> Pending,
     decode |-> NewDecode(<<>>)]

Init ==
    /\ buffer \in Buffers
    /\ fit_stream = [pos |-> 0, eof |-> FALSE]
    /\ pc = "check"
    /\ records = <<>>
    /\ recordSrc = <<>>
    /\ delivered = <<>>
    /\ readCalled = FALSE
    /\ thrown = ""
    /\ it = 0
    /\ result_list = <<>>
    /\ resultSrc = <<>>
    /\ badarg = FALSE
    /\ result = Pending
    /\ decode = NewDecode(<<>>)
    /\ other = FreshContext(EmptyBuffer)
    /\ self = 1

\* variant: the failed check does not return
IntegrityFailContinues ==
    /\ pc = "check"
    /\ ~CheckIntegrity(buffer)
    /\ \E p \in 0..buffer.size :
          fit_stream' = [pos |-> p, eof |-> (p = buffer.size)]
    /\ pc' = "rewind"
    /\ UNCHANGED <<decode, other, self, thrown, buffer, records, recordSrc, delivered, readCalled, it,
                   result_list, resultSrc, badarg, result>>

\* if (!decode.CheckIntegrity(fit_stream)) return error_integrity_check_failed
IntegrityFail ==
    /\ pc = "check"
    /\ ~CheckIntegrity(buffer)
    /\ \E p \in 0..buffer.size :
          fit_stream' = [pos |-> p, eof |-> (p = buffer.size)]
    /\ result' = ReturnAtom("error_integrity_check_failed")
    /\ pc' = "done"
    /\ UNCHANGED <<decode, other, self, thrown, buffer, records, recordSrc, delivered, readCalled, it,
                   result_list, resultSrc, badarg>>

\* the check passes, having read some part of the stream
IntegrityPass ==
    /\ pc = "check"
    /\ CheckIntegrity(buffer)
    /\ \E p \in 0..buffer.size :
          fit_stream' = [pos |-> p, eof |-> (p = buffer.size)]
    /\ pc' = "rewind"
    /\ UNCHANGED <<decode, other, self, thrown, buffer, records, recordSrc, delivered, readCalled, it,
                   result_list, resultSrc, badarg, result>>

\* as if only seekg were called, the stream's state flags being left as
\* CheckIntegrity left them
RewoundNoClear(stream) == [pos |-> 0, eof |-> stream.eof]

\* fit_stream.clear(); fit_stream.seekg(0, std::ios::beg)
Rewound(stream) == [pos |-> 0, eof |-> FALSE]

Rewind ==
    /\ pc = "rewind"
    /\ fit_stream' = Rewound(fit_stream)
    /\ pc' = "read"
    /\ UNCHANGED <<decode, other, self, thrown, buffer, records, recordSrc, delivered, readCalled, it,
                   result_list, resultSrc, badarg, result>>

\* Read can take a unit from the stream
CanRead == ~fit_stream.eof /\ fit_stream.pos < buffer.size

\* Read throws at the unit it is about to decode
Throws == CanRead /\ buffer.failAt = fit_stream.pos

\* decode.Read consumes the file header
ReadHeader ==
    /\ pc = "read"
    /\ CanRead /\ ~Throws
    /\ fit_stream.pos = 0
    /\ fit_stream' = [fit_stream EXCEPT !.pos = 1]
    /\ readCalled' = TRUE
    /\ UNCHANGED <<decode, other, self, thrown, buffer, pc, records, recordSrc, delivered, it, result_list,
                   resultSrc, badarg, result>>

\* decode.Read decodes the next message and calls listener.OnMesg with it
ReadMesg ==
    /\ pc = "read"
    /\ CanRead /\ ~Throws
    /\ fit_stream.pos >= 1
    /\ LET i == fit_stream.pos
           recs == OnMesg(records, DecodeMesg(buffer.msgs[i]))
       IN  /\ records' = recs
           /\ recordSrc' = IF Len(recs) > Len(records)
                               THEN Append(recordSrc, i)
                               ELSE recordSrc
           /\ delivered' = Append(delivered, i)
           /\ fit_stream' = [fit_stream EXCEPT !.pos = i + 1]
    /\ readCalled' = TRUE
    /\ UNCHANGED <<decode, other, self, thrown, buffer, pc, it, result_list, resultSrc, badarg, result>>

\* what the try/catch around Read makes of an exception
Caught(e) ==
    IF e = "fit::RuntimeException"
        THEN ReturnAtom("error_sdk_exception")
        ELSE Uncaught(e)

\* variant: the catch block falls through to the conversion
ReadThrowSwallowed ==
    /\ pc = "read"
    /\ Throws
    /\ readCalled' = TRUE
    /\ thrown' = buffer.exc
    /\ it' = Len(records)
    /\ pc' = "build"
    /\ UNCHANGED <<decode, other, self, buffer, fit_stream, records, recordSrc, delivered,
                   result_list, resultSrc, badarg, result>>

\* decode.Read throws
ReadThrow ==
    /\ pc = "read"
    /\ Throws
    /\ readCalled' = TRUE
    /\ thrown' = buffer.exc
    /\ result' = Caught(buffer.exc)
    /\ pc' = "done"
    /\ UNCHANGED <<decode, other, self, buffer, fit_stream, records, recordSrc, delivered, it,
                   result_list, resultSrc, badarg>>

\* the first record the conversion loop visits: records.rbegin()
FirstVisited(recs) == Len(recs)

\* the record visited after index i: ++it on a reverse iterator
NextVisited(i) == i - 1

\* decode.Read returns at the end of the stream
ReadDone ==
    /\ pc = "read"
    /\ ~CanRead
    /\ readCalled' = TRUE
    /\ fit_stream' = [fit_stream EXCEPT !.eof = TRUE]
    /\ it' = FirstVisited(records)
    /\ result_list' = <<>>
    /\ resultSrc' = <<>>
    /\ pc' = "build"
    /\ UNCHANGED <<decode, other, self, thrown, buffer, records, recordSrc, delivered, badarg, result>>

\* one iteration of the conversion loop
BuildMap ==
    /\ pc = "build"
    /\ it >= 1 /\ it <= Len(records)
    /\ result_list' = enif_make_list_cell(MakeMap(records[it]), result_list)
    /\ resultSrc' = enif_make_list_cell(recordSrc[it], resultSrc)
    /\ badarg' = (badarg \/ RaisesBadarg(records[it]))
    /\ it' = NextVisited(it)
    /\ UNCHANGED <<decode, other, self, thrown, buffer, fit_stream, pc, records, recordSrc, delivered,
                   readCalled, result>>

\* the loop visited every record
LoopDone(i, recs) == i < 1 \/ i > Len(recs)

\* return result_list
Return ==
    /\ pc = "build"
    /\ LoopDone(it, records)
    /\ result' = IF badarg THEN RaiseBadarg ELSE ReturnList(result_list)
    /\ pc' = "done"
    /\ UNCHANGED <<decode, other, self, thrown, buffer, fit_stream, records, recordSrc, delivered, readCalled,
                   it, result_list, resultSrc, badarg>>

Next ==
    \/ IntegrityFail
    \/ IntegrityPass
    \/ Rewind
    \/ ReadHeader
    \/ ReadMesg
    \/ ReadThrow
    \/ ReadDone
    \/ BuildMap
    \/ Return

Spec == Init /\ [][Next]_vars

----------------------------------------------------------------------------
(* Two invocations of decode_fit_file_nif on two schedulers.  Everything an
   invocation writes is a local of the function: fit_stream, decode,
   listener (and its records), result_list, the loop iterator and the terms
   of its own env.  The file declares no static or global variable. *)

\* the longest message sequence of a buffer given to paired invocations
MaxPairMsgs == 1

PairMsgs ==
    {[num |-> FIT_MESG_NUM_RECORD, ts |-> Present(<<15258, 51712>>),
      body |-> "scenario", field |-> "", entry |-> Absent],
     [num |-> FIT_MESG_NUM_RECORD, ts |-> Present(<<65535, 65534>>),
      body |-> "none", field |-> "", entry |-> Absent]}

PairMsgSeqs == UNION {[1..n -> PairMsgs] : n \in 0..MaxPairMsgs}

PairBuffers ==
    {EmptyBuffer} \cup
    UNION {
        {[size |-> Len(ms) + 1, msgs |-> ms, crc_ok |-> FALSE, failAt |-> -1, exc |-> ""],
         [size |-> Len(ms) + 1, msgs |-> ms, crc_ok |-> TRUE, failAt |-> -1, exc |-> ""],
         [size |-> Len(ms) + 1, msgs |-> ms, crc_ok |-> TRUE, failAt |-> Len(ms),
          exc |-> "fit::RuntimeException"]} :
        ms \in PairMsgSeqs}

\* the locals of the running invocation
Context ==
    [buffer |-> buffer,
     fit_stream |-> fit_stream,
     pc |-> pc,
     records |-> records,
     recordSrc |-> recordSrc,
     delivered |-> delivered,
     readCalled |-> readCalled,
     thrown |-> thrown,
     it |-> it,
     result_list |-> result_list,
     resultSrc |-> resultSrc,
     badarg |-> badarg,
     result |-> result,
     decode |-> decode]

\* as if Listener::records were one static vector for all invocations
SwitchSharedRecords ==
    /\ other' = Context
    /\ self' = 3 - self
    /\ buffer' = other.buffer
    /\ fit_stream' = other.fit_stream
    /\ pc' = other.pc
    /\ delivered' = other.delivered
    /\ readCalled' = other.readCalled
    /\ thrown' = other.thrown
    /\ it' = other.it
    /\ result_list' = other.result_list
    /\ resultSrc' = other.resultSrc
    /\ badarg' = other.badarg
    /\ result' = other.result
    /\ decode' = other.decode
    /\ UNCHANGED <<records, recordSrc>>

\* as if fit_stream were one stream for all invocations
SwitchSharedStream ==
    /\ other' = Context
    /\ self' = 3 - self
    /\ buffer' = other.buffer
    /\ pc' = other.pc
    /\ records' = other.records
    /\ recordSrc' = other.recordSrc
    /\ delivered' = other.delivered
    /\ readCalled' = other.readCalled
    /\ thrown' = other.thrown
    /\ it' = other.it
    /\ result_list' = other.result_list
    /\ resultSrc' = other.resultSrc
    /\ badarg' = other.badarg
    /\ result' = other.result
    /\ decode' = other.decode
    /\ UNCHANGED fit_stream

\* the next step is taken by the other invocation: each works on its own
\* locals
Switch ==
    /\ other' = Context
    /\ self' = 3 - self
    /\ buffer' = other.buffer
    /\ fit_stream' = other.fit_stream
    /\ pc' = other.pc
    /\ records' = other.records
    /\ recordSrc' = other.recordSrc
    /\ delivered' = other.delivered
    /\ readCalled' = other.readCalled
    /\ thrown' = other.thrown
    /\ it' = other.it
    /\ result_list' = other.result_list
    /\ resultSrc' = other.resultSrc
    /\ badarg' = other.badarg
    /\ result' = other.result
    /\ decode' = other.decode

InitPair ==
    /\ buffer \in PairBuffers
    /\ fit_stream = [pos |-> 0, eof |-> FALSE]
    /\ pc = "check"
    /\ records = <<>>
    /\ recordSrc = <<>>
    /\ delivered = <<>>
    /\ readCalled = FALSE
    /\ thrown = ""
    /\ it = 0
    /\ result_list = <<>>
    /\ resultSrc = <<>>
    /\ badarg = FALSE
    /\ result = Pending
    /\ decode = NewDecode(<<>>)
    /\ other \in {FreshContext(b) : b \in PairBuffers}
    /\ self = 1

NextPair ==
    \/ IntegrityFail
    \/ IntegrityPass
    \/ Rewind
    \/ ReadHeader
    \/ ReadMesg
    \/ ReadThrow
    \/ ReadDone
    \/ BuildMap
    \/ Return
    \/ Switch

SpecPair == InitPair /\ [][NextPair]_vars

----------------------------------------------------------------------------
(* The record framing inside decode.Read, on its own *)

\* the next record of the stream
Frame == decode.frames[decode.pos]

MoreFrames == ~decode.failed /\ decode.pos <= Len(decode.frames)

ReadDefinition ==
    /\ MoreFrames
    /\ Frame.kind = "definition"
    /\ decode' = [decode EXCEPT !.defs = Bind(decode.defs, Frame.local, Frame.def),
                                !.pos = decode.pos + 1]
    /\ UNCHANGED <<buffer, fit_stream, pc, records, recordSrc, delivered, readCalled,
                   thrown, it, result_list, resultSrc, badarg, result, other, self>>

\* a data record of a bound local type becomes a message for the listener
ReadData ==
    /\ MoreFrames
    /\ Frame.kind = "data"
    /\ decode.defs[Frame.local] # Undefined
    /\ decode' = [decode EXCEPT
                     !.out = Append(decode.out,
                                    DecodeData(decode.defs[Frame.local], Payload)),
                     !.at = Append(decode.at, decode.pos),
                     !.pos = decode.pos + 1]
    /\ UNCHANGED <<buffer, fit_stream, pc, records, recordSrc, delivered, readCalled,
                   thrown, it, result_list, resultSrc, badarg, result, other, self>>

\* a data record of a local type that has no definition ends the decode
ReadUndefined ==
    /\ MoreFrames
    /\ Frame.kind = "data"
    /\ decode.defs[Frame.local] = Undefined
    /\ decode' = [decode EXCEPT !.failed = TRUE]
    /\ UNCHANGED <<buffer, fit_stream, pc, records, recordSrc, delivered, readCalled,
                   thrown, it, result_list, resultSrc, badarg, result, other, self>>

InitFraming ==
    /\ buffer = EmptyBuffer
    /\ fit_stream = [pos |-> 0, eof |-> FALSE]
    /\ pc = "read"
    /\ records = <<>>
    /\ recordSrc = <<>>
    /\ delivered = <<>>
    /\ readCalled = FALSE
    /\ thrown = ""
    /\ it = 0
    /\ result_list = <<>>
    /\ resultSrc = <<>>
    /\ badarg = FALSE
    /\ result = Pending
    /\ decode \in {NewDecode(fs) : fs \in FrameSeqs}
    /\ other = FreshContext(EmptyBuffer)
    /\ self = 1

NextFraming ==
    \/ ReadDefinition
    \/ ReadData
    \/ ReadUndefined

SpecFraming == InitFraming /\ [][NextFraming]_vars

----------------------------------------------------------------------------
(* Properties *)

Range(q) == {q[i] : i \in 1..Len(q)}

\* the entry of field f in the j-th message of the buffer
SourceEntry(j, f) == DecodeMesg(buffer.msgs[j]).fields[f]

\* the j-th message is a Record message
IsRecord(j) == buffer.msgs[j].num = 20

\* the j-th message has no timestamp, or the timestamp sentinel 0xFFFFFFFF
TimestampMissing(j) ==
    ~buffer.msgs[j].ts.has \/ buffer.msgs[j].ts.raw = <<65535, 65535>>

\* field f of the j-th message is missing or holds its base type's sentinel
FieldMissing(j, f) ==
    ~SourceEntry(j, f).has \/ SourceEntry(j, f).raw = WireInvalid(f)

\* the call returned a list of samples
ReturnedList == pc = "done" /\ result.kind = "list"

\* C1: every sample of a returned list, and every map under construction, has
\* the timestamp key, and no message without a timestamp or with the sentinel
\* timestamp is behind a record or a sample.
C1_TimestampPresent ==
    /\ \A i \in 1..Len(result_list) : "timestamp" \in DOMAIN result_list[i]
    /\ \A i \in 1..Len(result.list) : "timestamp" \in DOMAIN result.list[i]
    /\ \A j \in 1..Len(buffer.msgs) :
          TimestampMissing(j) => j \notin Range(recordSrc) \cup Range(resultSrc)

\* a list was returned from a buffer whose Record messages include one with a
\* missing or sentinel timestamp, which Read delivered
C1_Witness ==
    /\ ReturnedList
    /\ Len(result.list) >= 1
    /\ \E j \in Range(delivered) : IsRecord(j) /\ TimestampMissing(j)

\* C2: the samples of a returned list are in the order in which their Record
\* messages were delivered: the i-th sample is the map of the i-th accumulated
\* record, and the messages behind the samples have increasing positions.
C2_FileOrder ==
    ReturnedList =>
        /\ Len(result.list) = Len(records)
        /\ resultSrc = recordSrc
        /\ \A i \in 1..Len(result.list) : result.list[i] = MakeMap(records[i])
        /\ \A i, k \in 1..Len(resultSrc) : i < k => resultSrc[i] < resultSrc[k]

\* a list of two different samples was returned
C2_Witness ==
    /\ ReturnedList
    /\ Len(result.list) >= 2
    /\ result.list[1] # result.list[2]

\* C3: in every sample, a field missing from the source message or holding
\* its base type's sentinel there has no key, and no key holds the sentinel
\* of its base type.
C3_SentinelAbsent ==
    \A i \in 1..Len(result_list) :
        /\ \A f \in FieldNames :
              FieldMissing(resultSrc[i], f) => f \notin DOMAIN result_list[i]
        /\ \A f \in DOMAIN result_list[i] : result_list[i][f].v # WireInvalid(f)

\* a returned sample whose source message carried a field with its sentinel
C3_Witness ==
    /\ ReturnedList
    /\ \E i \in 1..Len(result.list) : \E f \in FieldNames :
          /\ SourceEntry(resultSrc[i], f).has
          /\ SourceEntry(resultSrc[i], f).raw = WireInvalid(f)
          /\ f \notin DOMAIN result.list[i]

\* C4: when CheckIntegrity is false for the buffer, Read is never entered, the
\* listener gets no message and accumulates nothing, no list is built, and the
\* call ends with exactly error_integrity_check_failed.
C4_IntegrityError ==
    ~CheckIntegrity(buffer) =>
        /\ ~readCalled
        /\ delivered = <<>>
        /\ records = <<>>
        /\ result_list = <<>>
        /\ result.kind # "list"
        /\ pc = "done" => result = ReturnAtom("error_integrity_check_failed")

\* the call ended on a non-empty buffer with messages that fails the check
C4_Witness ==
    /\ pc = "done"
    /\ ~CheckIntegrity(buffer)
    /\ \E j \in 1..Len(buffer.msgs) : IsRecord(j) /\ ~TimestampMissing(j)

\* C5: once Read has thrown fit::RuntimeException, whatever the number of
\* records accumulated, the call yields exactly error_sdk_exception and no
\* list.
C5_DecodeError ==
    thrown = "fit::RuntimeException" =>
        /\ pc = "done"
        /\ result = ReturnAtom("error_sdk_exception")
        /\ result.list = <<>>

\* Read threw fit::RuntimeException with a record already accumulated
C5_Witness ==
    /\ thrown = "fit::RuntimeException"
    /\ Len(records) >= 1

\* the j-th message has a timestamp other than the sentinel
TimestampValid(j) == ~TimestampMissing(j)

\* field f of the j-th message is valid: carried, not the sentinel of its
\* base type and, for a float, not a NaN
FieldValid(j, f) ==
    /\ ~FieldMissing(j, f)
    /\ BaseType(f) = "float32" => ~IsNaN(SourceEntry(j, f).raw)

\* C6: the timestamp of every returned sample is the raw timestamp T of its
\* Record message plus 631065600, as integers, for every valid T.
C6_UnixTimestamp ==
    ReturnedList =>
        \A i \in 1..Len(result.list) :
            TimestampValid(resultSrc[i]) =>
                result.list[i]["timestamp"].v
                    = WAdd(buffer.msgs[resultSrc[i]].ts.raw, <<9629, 19456>>)

\* C7: a returned list has exactly one sample for each Record message with a
\* valid timestamp, and none for any other message.
C7_RowAdmission ==
    ReturnedList =>
        /\ Range(resultSrc)
              = {j \in 1..Len(buffer.msgs) : IsRecord(j) /\ TimestampValid(j)}
        /\ Len(result.list)
              = Cardinality({j \in 1..Len(buffer.msgs) : IsRecord(j) /\ TimestampValid(j)})

\* the Record messages all have valid timestamps, non-decreasing in file order
RawTimestampsOrdered ==
    /\ \A j \in 1..Len(buffer.msgs) : IsRecord(j) => TimestampValid(j)
    /\ \A j, k \in 1..Len(buffer.msgs) :
          (IsRecord(j) /\ IsRecord(k) /\ j < k) =>
              WLe(buffer.msgs[j].ts.raw, buffer.msgs[k].ts.raw)

\* C8: when the raw timestamps of the Record messages are valid and
\* non-decreasing in file order, the timestamps of the returned samples are
\* non-decreasing in list order.
C8_Monotonic ==
    (ReturnedList /\ RawTimestampsOrdered) =>
        \A i, k \in 1..Len(result.list) :
            i < k => WLe(result.list[i]["timestamp"].v, result.list[k]["timestamp"].v)

\* C9: in every returned sample, each field other than the timestamp that is
\* valid in the source message has its key, holding the decoded value (zero
\* included), whatever the other fields of the message are.
C9_ValidPresent ==
    ReturnedList =>
        \A i \in 1..Len(result.list) : \A f \in FieldNames :
            FieldValid(resultSrc[i], f) =>
                /\ f \in DOMAIN result.list[i]
                /\ result.list[i][f].type # "exception"
                /\ result.list[i][f].v
                      = DecodeRaw(BaseType(f), SourceEntry(resultSrc[i], f).raw)

\* a returned sample holds the zero its message gave for one field, the other
\* fields of the message being all valid
C9_Witness ==
    /\ ReturnedList
    /\ Len(result.list) = 1
    /\ buffer.msgs[resultSrc[1]].field \in FieldNames
    /\ buffer.msgs[resultSrc[1]].entry = Present(<<0, 0>>)
    /\ buffer.msgs[resultSrc[1]].body = "default"
    /\ result.list[1][buffer.msgs[resultSrc[1]].field].v = <<0, 0>>

\* C10: a float field whose value is a NaN (the reserved pattern or any other)
\* has no key in any map built, and no map holds a NaN.
C10_NaNAbsent ==
    \A i \in 1..Len(result_list) : \A f \in Float32Fields :
        /\ (SourceEntry(resultSrc[i], f).has /\ IsNaN(SourceEntry(resultSrc[i], f).raw))
              => f \notin DOMAIN result_list[i]
        /\ f \in DOMAIN result_list[i] =>
              (result_list[i][f].type = "double" => ~IsNaN(result_list[i][f].v))

\* a returned sample whose source message carried a NaN other than the
\* reserved pattern in a float field
C10_Witness ==
    /\ ReturnedList
    /\ \E i \in 1..Len(result.list) : \E f \in Float32Fields :
          /\ SourceEntry(resultSrc[i], f).has
          /\ SourceEntry(resultSrc[i], f).raw = <<32704, 0>>
          /\ f \notin DOMAIN result.list[i]

\* C11: whatever exception Read throws, the call ends with exactly
\* error_sdk_exception: none escapes decode_fit_file.
C11_EveryExceptionCaught ==
    thrown # "" =>
        /\ pc = "done"
        /\ result = ReturnAtom("error_sdk_exception")

\* the locals of invocation p, whether it is running or not
ContextOf(p) == IF self = p THEN Context ELSE other

BothDone == ContextOf(1).pc = "done" /\ ContextOf(2).pc = "done"

\* C12: two invocations given identical buffers end with identical results,
\* however their steps interleave (one after the other included).
C12_Deterministic ==
    (BothDone /\ ContextOf(1).buffer = ContextOf(2).buffer) =>
        ContextOf(1).result = ContextOf(2).result

\* both invocations were given the same buffer and each returned a list with
\* a sample in it
C12_Witness ==
    /\ BothDone
    /\ ContextOf(1).buffer = ContextOf(2).buffer
    /\ ContextOf(1).result.kind = "list"
    /\ Len(ContextOf(1).result.list) >= 1
    /\ Len(ContextOf(2).result.list) >= 1

\* C13: when Read is first called the stream stands at offset 0 with its
\* state flags clear, however far CheckIntegrity had read, and the listener's
\* accumulator is empty; Read then takes the messages from the first one on.
C13_Rewound ==
    /\ (pc = "read" /\ ~readCalled) =>
           /\ fit_stream = [pos |-> 0, eof |-> FALSE]
           /\ records = <<>>
    /\ \A i \in 1..Len(delivered) : delivered[i] = i

\* Read is about to be called for the first time on a buffer that has
\* messages in it
C13_Witness ==
    /\ pc = "read"
    /\ ~readCalled
    /\ buffer.size >= 2

\* C14: a call of OnMesg keeps every record accumulated so far, in place and
\* unmodified, and adds at most one at the end; with a message that is not a
\* Record message it leaves records as it was.  No other step changes
\* records.
C14_OnMesgFrame ==
    [][ /\ Len(delivered') > Len(delivered) =>
              /\ Len(records') <= Len(records) + 1
              /\ Len(records') >= Len(records)
              /\ SubSeq(records', 1, Len(records)) = records
              /\ ~IsRecord(delivered'[Len(delivered')]) => records' = records
        /\ delivered' = delivered => records' = records ]_vars

\* a message that is not a Record message was delivered after a record had
\* been accumulated, and the record is still the only one
C14_Witness ==
    /\ Len(delivered) = 2
    /\ IsRecord(1)
    /\ ~IsRecord(2)
    /\ recordSrc = <<1>>
    /\ Len(records) = 1

RECURSIVE Accumulated(_, _, _)
\* the records a listener holds after the messages i.. of msgs, starting
\* from recs
Accumulated(recs, msgs, i) ==
    IF i > Len(msgs)
        THEN recs
        ELSE Accumulated(OnMesg(recs, DecodeMesg(msgs[i])), msgs, i + 1)

\* what an invocation on buffer b returns when no other invocation runs
RunAlone(b) ==
    IF ~CheckIntegrity(b)
        THEN ReturnAtom("error_integrity_check_failed")
        ELSE IF b.failAt >= 0
            THEN Caught(b.exc)
            ELSE LET recs == Accumulated(<<>>, b.msgs, 1)
                 IN  IF \E i \in 1..Len(recs) : RaisesBadarg(recs[i])
                         THEN RaiseBadarg
                         ELSE ReturnList([i \in 1..Len(recs) |-> MakeMap(recs[i])])

\* C15: two invocations on their own buffers, their steps interleaved in any
\* order, each end with the result the invocation yields when run alone.
C15_Independent ==
    \A p \in {1, 2} :
        ContextOf(p).pc = "done" =>
            ContextOf(p).result = RunAlone(ContextOf(p).buffer)

\* both invocations ended, on different buffers, each with its own list of
\* one sample
C15_Witness ==
    /\ BothDone
    /\ ContextOf(1).buffer # ContextOf(2).buffer
    /\ ContextOf(1).result.kind = "list"
    /\ ContextOf(2).result.kind = "list"
    /\ Len(ContextOf(1).result.list) = 1
    /\ Len(ContextOf(2).result.list) = 1
    /\ ContextOf(1).result # ContextOf(2).result

\* C16: on the zero-length buffer the integrity check fails, Read is never
\* entered, no list is built, and the call ends with exactly
\* error_integrity_check_failed.
C16_EmptyBuffer ==
    buffer.size = 0 =>
        /\ pc \in {"check", "done"}
        /\ ~readCalled
        /\ delivered = <<>>
        /\ result.kind # "list"
        /\ pc = "done" => result = ReturnAtom("error_integrity_check_failed")

\* the call on the zero-length buffer has ended
C16_Witness ==
    /\ pc = "done"
    /\ buffer.size = 0
    /\ buffer.msgs = <<>>

\* C18: every accumulated record comes from a Record message that has a valid
\* timestamp and at least one other valid field.
C18_NeedsOtherField ==
    \A i \in 1..Len(records) :
        /\ TimestampValid(recordSrc[i])
        /\ \E f \in FieldNames : FieldValid(recordSrc[i], f)

\* C19: in every returned sample a valid integer field holds the number its
\* wire value stands for under the field's own signedness: a signed 8- or
\* 32-bit value with its top bit set comes out negative, by two's
\* complement; an unsigned 8-, 16- or 32-bit value comes out unchanged and
\* not negative, values from 2^31 to 0xFFFFFFFE included.
C19_Signedness ==
    ReturnedList =>
        \A i \in 1..Len(result.list) :
            \A f \in FieldNames \ Float32Fields :
                FieldValid(resultSrc[i], f) =>
                    /\ f \in DOMAIN result.list[i]
                    /\ LET raw == SourceEntry(resultSrc[i], f).raw
                           v == result.list[i][f].v
                       IN  CASE BaseType(f) = "sint8" ->
                                    /\ v[1] * 65536 + v[2]
                                          = IF raw[2] >= 128 THEN raw[2] - 256 ELSE raw[2]
                                    /\ v[1] < 0 <=> raw[2] >= 128
                             [] BaseType(f) = "sint32" ->
                                    /\ v[2] = raw[2]
                                    /\ v[1] = IF raw[1] >= 32768
                                                  THEN raw[1] - 65536
                                                  ELSE raw[1]
                                    /\ v[1] < 0 <=> raw[1] >= 32768
                             [] OTHER ->
                                    /\ v = raw
                                    /\ v[1] >= 0

\* a returned sample holds the unsigned 32-bit value 0xFFFFFFFE that its
\* message gave for one field
C19_Witness ==
    /\ ReturnedList
    /\ Len(result.list) = 1
    /\ \E g \in Uint32Fields :
          /\ g \in DOMAIN result.list[1]
          /\ SourceEntry(resultSrc[1], g).raw = <<65535, 65534>>
          /\ result.list[1][g].v = <<65535, 65534>>

LastDefinition(i, l) ==
    LET js == {j \in 1..(i - 1) :
                  /\ decode.frames[j].kind = "definition"
                  /\ decode.frames[j].local = l}
    IN  decode.frames[CHOOSE j \in js : \A k \in js : k <= j].def

\* C17: each message delivered comes from a data record decoded against the
\* definition most recently seen for its local type before that record; and
\* a step of the decode, a redefinition included, leaves the messages already
\* delivered as they are.
C17_LastDefinitionWins ==
    /\ [](\A k \in 1..Len(decode.out) :
             LET i == decode.at[k]
             IN  /\ decode.frames[i].kind = "data"
                 /\ decode.out[k]
                       = DecodeData(LastDefinition(i, decode.frames[i].local), Payload))
    /\ [][SubSeq(decode'.out, 1, Len(decode.out)) = decode.out]_vars

\* a local type was bound, used, bound again to another layout and used
\* again: the two messages delivered differ
C17_Witness ==
    /\ Len(decode.frames) = 4
    /\ decode.pos = 5
    /\ decode.frames[1].kind = "definition"
    /\ decode.frames[3].kind = "definition"
    /\ decode.frames[3].local = decode.frames[1].local
    /\ decode.frames[3].def # decode.frames[1].def
    /\ Len(decode.out) = 2
    /\ decode.out[1] # decode.out[2]

\* (T + 631065600) mod 2^32 for a raw timestamp T below 2^32: the sum, less
\* 2^32 when it reaches 2^32
Mod32Sum(T) ==
    LET lo == T[2] + 19456
        hi == T[1] + 9629 + (IF lo >= 65536 THEN 1 ELSE 0)
    IN  <<IF hi >= 65536 THEN hi - 65536 ELSE hi,
          IF lo >= 65536 THEN lo - 65536 ELSE lo>>

\* the raw timestamp of message j
RawTimestamp(j) == buffer.msgs[j].ts.raw

SampleAlone(j) ==
    MakeMap(ProcessRecordMessage(<<>>, DecodeMesg(buffer.msgs[j]))[1])

\* C22: every returned sample is the sample its Record message gives on its
\* own, whatever messages came before it: its keys are the timestamp and the
\* fields valid in that message, and a field the message lacks has no key
\* even when an earlier Record message had a value for it.
C22_NoCarryOver ==
    ReturnedList =>
        \A i \in 1..Len(result.list) :
            /\ result.list[i] = SampleAlone(resultSrc[i])
            /\ TimestampValid(resultSrc[i]) =>
                  DOMAIN result.list[i]
                      = {"timestamp"}
                          \cup {f \in FieldNames : FieldValid(resultSrc[i], f)}

\* the second of two returned samples comes from a message with no field but
\* the timestamp, after a message that had other fields: it holds the
\* timestamp alone
C22_Witness ==
    /\ ReturnedList
    /\ Len(result.list) = 2
    /\ buffer.msgs[resultSrc[1]].body = "scenario"
    /\ buffer.msgs[resultSrc[2]].body = "none"
    /\ DOMAIN result.list[1] # {"timestamp"}
    /\ DOMAIN result.list[2] = {"timestamp"}
====
